---- MODULE Spec2Model ----
(***************************************************************************)
(* A model of the condor-client flight search: the query builder           *)
(* (build_base_query), the search collaborator (search_elasticsearch,      *)
(* get_previous_day_price) and the two result assemblers                   *)
(* (get_oneway_results, get_roundtrip_results) of src/flight_search.py,    *)
(* with the request entry point (main) of src/app.py.                      *)
(*                                                                         *)
(* Encodings.                                                              *)
(*  - A Python str is a sequence of tokens.  A token is a blank " ", a     *)
(*    comma ",", or an airport code written in upper or lower case         *)
(*    ("BBB" / "bbb"); a code is one token.                                *)
(*  - The 8-digit strings of the date fields (date, date_retrieved) are    *)
(*    the naturals with the same digits: "20250301" is 20250301.           *)
(*  - Python's None, and an optional value in general, is the empty        *)
(*    sequence; a present value v is <<v>>.                                *)
(*  - A float that the code obtains as round(n / 100, 2) from an integer n *)
(*    is the decimal [sign, whole, frac] it denotes.                       *)
(***************************************************************************)
EXTENDS Integers, Sequences, FiniteSets, TLC

VARIABLES
    impl,               \* which entry point serves the request: "FlightSearch" or "app"
    req,                \* the raw filter inputs of the request
    index,              \* the documents of the Elasticsearch index (read only)
    pc,                 \* position of the request
    base_query,         \* the predicate built by build_base_query, <<>> before
    es_calls,           \* number of es.search calls made so far
    queries,            \* the query bodies handed to search_elasticsearch, in order
    results,            \* get_oneway_results: the hits of the primary search
    lookups,            \* get_oneway_results: per processed row, the previous-day lookup
    formatted_results,  \* get_oneway_results: the rows built so far
    set1,               \* get_roundtrip_results: the forth hits
    set2,               \* get_roundtrip_results: the back hits
    pairs,              \* get_roundtrip_results: the returned pair rows
    error               \* the exception that ended the request, "" if none

vars == <<impl, req, index, pc, base_query, es_calls, queries, results, lookups,
          formatted_results, set1, set2, pairs, error>>

---------------------------------------------------------------------------
(* Bounds of the model.                                                    *)

\* documents in the index of a one-way scenario
MaxOnewayDocs == 4
\* documents in the index of a round-trip scenario
MaxRoundtripDocs == 4
\* the size=100 of the one-way search, scaled down
OnewaySize == 2
\* the size=1000 of the two round-trip searches, scaled down
RoundtripSize == 2
\* the 100 of pairs[:100], scaled down
TopPairs == 1
\* calls of get_roundtrip_results made with one predicate object
MaxCalls == 2

---------------------------------------------------------------------------
(* Optional values, sequences.                                             *)

None == <<>>
Some(v) == <<v>>

Min(a, b) == IF a <= b THEN a ELSE b

Take(s, n) == SubSeq(s, 1, Min(n, Len(s)))

Range(s) == {s[k] : k \in 1..Len(s)}

---------------------------------------------------------------------------
(* Strings: str.split(","), str.strip(), str.upper().                      *)

IsBlank(tok) == tok = " "

upper(tok) ==
    CASE tok = "bbb" -> "BBB"
      [] tok = "ccc" -> "CCC"
      [] tok = "aaa" -> "AAA"
      [] OTHER -> tok

Upper(s) == [k \in 1..Len(s) |-> upper(s[k])]

RECURSIVE LStrip(_)
LStrip(s) ==
    IF s # <<>> /\ IsBlank(Head(s)) THEN LStrip(Tail(s)) ELSE s

RECURSIVE RStrip(_)
RStrip(s) ==
    IF s # <<>> /\ IsBlank(s[Len(s)]) THEN RStrip(SubSeq(s, 1, Len(s) - 1)) ELSE s

Strip(s) == RStrip(LStrip(s))

\* s.split(","): the pieces between the commas, empty pieces included
RECURSIVE SplitAcc(_, _, _)
SplitAcc(s, piece, done) ==
    IF s = <<>> THEN Append(done, piece)
    ELSE IF Head(s) = "," THEN SplitAcc(Tail(s), <<>>, Append(done, piece))
    ELSE SplitAcc(Tail(s), Append(piece, Head(s)), done)

Split(s) == SplitAcc(s, <<>>, <<>>)

\* [d.strip().upper() for d in destination.split(",") if d.strip()]
Destinations(destination) ==
    LET pieces == Split(destination)
        kept   == SelectSeq(pieces, LAMBDA d : Strip(d) # <<>>)
    IN  [k \in 1..Len(kept) |-> Upper(Strip(kept[k]))]

---------------------------------------------------------------------------
(* Dates: datetime.strptime(s, "%Y%m%d"), date.strftime("%Y%m%d"),         *)
(* datetime.replace(day=...), comparison of datetimes.                     *)

IsLeap(y) == (y % 4 = 0 /\ y % 100 # 0) \/ y % 400 = 0

DaysInMonth(y, m) ==
    CASE m \in {4, 6, 9, 11} -> 30
      [] m = 2 -> IF IsLeap(y) THEN 29 ELSE 28
      [] OTHER -> 31

ValidYMD(y, m, d) ==
    /\ y >= 1 /\ y <= 9999
    /\ m >= 1 /\ m <= 12
    /\ d >= 1 /\ d <= DaysInMonth(y, m)

\* strptime: the parsed date, or None where Python raises ValueError
Strptime(s) ==
    LET y == s \div 10000
        m == (s \div 100) % 100
        d == s % 100
    IN  IF ValidYMD(y, m, d) THEN Some([year |-> y, month |-> m, day |-> d]) ELSE None

Strftime(dt) == dt.year * 10000 + dt.month * 100 + dt.day

\* dt.replace(day=d): the new date, or None where Python raises ValueError
ReplaceDay(dt, d) ==
    IF ValidYMD(dt.year, dt.month, d) THEN Some([dt EXCEPT !.day = d]) ELSE None

\* b >= f: a pair on one date would pass
DateGreaterOrEqual(b, f) ==
    ~(\/ f.year > b.year
      \/ f.year = b.year /\ f.month > b.month
      \/ f.year = b.year /\ f.month = b.month /\ f.day > b.day)

\* b > f on two parsed datetimes
DateGreater(b, f) ==
    \/ b.year > f.year
    \/ b.year = f.year /\ b.month > f.month
    \/ b.year = f.year /\ b.month = f.month /\ b.day > f.day

---------------------------------------------------------------------------
(* Prices: round(n / 100, 2) of an integer n of minor units.               *)

Abs(n) == IF n < 0 THEN -n ELSE n

Round2Div100(n) ==
    [sign |-> IF n < 0 THEN -1 ELSE 1, whole |-> Abs(n) \div 100, frac |-> Abs(n) % 100]

\* the value of a two-decimal float, in hundredths
Hundredths(x) == x.sign * (x.whole * 100 + x.frac)

\* the order of two such floats
FloatLess(a, b) == Hundredths(a) < Hundredths(b)

---------------------------------------------------------------------------
(* The filter predicate: a bool query of must and must_not clauses.        *)

Term(field, value) ==
    [op |-> "term", field |-> field, values |-> <<value>>, gte |-> None, lte |-> None]

Terms(field, values) ==
    [op |-> "terms", field |-> field, values |-> values, gte |-> None, lte |-> None]

RangeClause(field, gte, lte) ==
    [op |-> "range", field |-> field, values |-> <<>>, gte |-> gte, lte |-> lte]

BoolQuery(must, must_not) == [must |-> must, must_not |-> must_not]

\* the concrete date added to the range instead of replacing it
DateClausesCombined(min_date_val, max_date_val, concrete_date_val) ==
    LET gte == IF min_date_val # None THEN Some(Strftime(min_date_val[1])) ELSE None
        lte == IF max_date_val # None THEN Some(Strftime(max_date_val[1])) ELSE None
    IN  (IF concrete_date_val # None THEN <<Term("date", concrete_date_val[1])>> ELSE <<>>)
        \o (IF gte # None \/ lte # None THEN <<RangeClause("date", gte, lte)>> ELSE <<>>)

\* the date clauses of build_base_query
DateClauses(min_date_val, max_date_val, concrete_date_val) ==
    IF concrete_date_val # None
    THEN <<Term("date", concrete_date_val[1])>>
    ELSE LET gte == IF min_date_val # None THEN Some(Strftime(min_date_val[1])) ELSE None
             lte == IF max_date_val # None THEN Some(Strftime(max_date_val[1])) ELSE None
         IN  IF gte # None \/ lte # None
             THEN <<RangeClause("date", gte, lte)>>
             ELSE <<>>

OriginMustNot(origin_exclusions) ==
    IF origin_exclusions # <<>> THEN <<Terms("origin", origin_exclusions)>> ELSE <<>>

OriginMust(origin_codes) ==
    IF origin_codes # <<>> THEN <<Terms("origin", origin_codes)>> ELSE <<>>

DateRetrievedMust(date_retrieved_val) ==
    IF date_retrieved_val # None THEN <<Term("date_retrieved", date_retrieved_val[1])>> ELSE <<>>

\* FlightSearch.build_base_query: splits and normalises the destination string
DestinationMust(destination) ==
    LET destinations == Destinations(destination)
    IN  IF Len(destinations) = 1
        THEN <<Term("destination", destinations[1])>>
        ELSE <<Terms("destination", destinations)>>

build_base_query(r) ==
    BoolQuery(
        DestinationMust(r.destination)
            \o OriginMust(r.origin_codes)
            \o <<Term("type", r.flight_type)>>
            \o DateRetrievedMust(r.date_retrieved_val)
            \o DateClauses(r.min_date_val, r.max_date_val, r.concrete_date_val),
        OriginMustNot(r.origin_exclusions))

\* app.build_base_query: one term on the destination string as given
app_build_base_query(r) ==
    BoolQuery(
        <<Term("destination", r.destination)>>
            \o OriginMust(r.origin_codes)
            \o <<Term("type", r.flight_type)>>
            \o DateRetrievedMust(r.date_retrieved_val)
            \o DateClauses(r.min_date_val, r.max_date_val, r.concrete_date_val),
        OriginMustNot(r.origin_exclusions))

---------------------------------------------------------------------------
(* The search collaborator: term, terms and range filters over the index,  *)
(* hits sorted ascending by price and cut to size.                         *)

ClauseMatches(c, doc) ==
    CASE c.op = "term"  -> doc[c.field] = c.values[1]
      [] c.op = "terms" -> \E k \in 1..Len(c.values) : doc[c.field] = c.values[k]
      [] c.op = "range" -> /\ (c.gte # None => doc[c.field] >= c.gte[1])
                           /\ (c.lte # None => doc[c.field] <= c.lte[1])

Matches(query, doc) ==
    /\ \A k \in 1..Len(query.must) : ClauseMatches(query.must[k], doc)
    /\ \A k \in 1..Len(query.must_not) : ~ClauseMatches(query.must_not[k], doc)

Matching(query, docs) == {doc \in docs : Matches(query, doc)}

\* every ordering of docs that ascends by price: equal prices come in any order
RECURSIVE PriceAscending(_)
PriceAscending(docs) ==
    IF docs = {} THEN {<<>>}
    ELSE LET cheapest == {d \in docs : \A e \in docs : d.price <= e.price}
         IN  UNION {{<<d>> \o rest : rest \in PriceAscending(docs \ {d})} : d \in cheapest}

\* the same search without the sort: the matching documents in any order
RECURSIVE AnyOrder(_)
AnyOrder(docs) ==
    IF docs = {} THEN {<<>>}
    ELSE UNION {{<<d>> \o rest : rest \in AnyOrder(docs \ {d})} : d \in docs}

search_without_sort(query_body, size, docs) ==
    {Take(hits, size) : hits \in AnyOrder(Matching(query_body, docs))}

\* the hit lists search_elasticsearch(query_body, size) may return
search_elasticsearch(query_body, size, docs) ==
    {Take(hits, size) : hits \in PriceAscending(Matching(query_body, docs))}

PreviousDayQuery(origin, destination, flight_date, flight_type, prev_date_retrieved) ==
    BoolQuery(<<Term("origin", origin),
                Term("destination", destination),
                Term("date", flight_date),
                Term("type", flight_type),
                Term("date_retrieved", prev_date_retrieved)>>, <<>>)

\* the values get_previous_day_price may return: the price of any one matching
\* document (size 1, no sort), None when nothing matches
get_previous_day_price(origin, destination, flight_date, flight_type, prev_date_retrieved, docs) ==
    LET hits == Matching(PreviousDayQuery(origin, destination, flight_date, flight_type,
                                          prev_date_retrieved), docs)
    IN  IF hits = {} THEN {None} ELSE {Some(d.price) : d \in hits}

---------------------------------------------------------------------------
(* get_oneway_results: one row per hit.                                    *)

\* the previous-day snapshot key, None where the try block raises ValueError
PrevDateRetrieved(date_retrieved) ==
    LET current_dr == Strptime(date_retrieved)
    IN  IF current_dr = None THEN None
        ELSE LET prev_day == ReplaceDay(current_dr[1], current_dr[1].day - 1)
             IN  IF prev_day = None THEN None ELSE Some(Strftime(prev_day[1]))

PriceDiff(raw_price, prev_price) ==
    IF prev_price # None THEN Some(Round2Div100(raw_price - prev_price[1])) ELSE None

NA == [kind |-> "str", text |-> "N/A"]

\* the truthiness test: a change of 0.0 is falsy
PriceChangeFieldIfTruthy(price_diff) ==
    IF price_diff # None /\ Hundredths(price_diff[1]) # 0
    THEN [kind |-> "float", value |-> price_diff[1]]
    ELSE NA

PriceChangeField(price_diff) ==
    IF price_diff # None THEN [kind |-> "float", value |-> price_diff[1]] ELSE NA

OnewayRow(doc, price_diff) ==
    [origin |-> doc.origin,
     destination |-> doc.destination,
     date_retrieved |-> doc.date_retrieved,
     date |-> doc.date,
     price |-> Round2Div100(doc.price),
     type |-> doc.type,
     price_change_vs_previous_day |-> PriceChangeField(price_diff)]

---------------------------------------------------------------------------
(* get_roundtrip_results: the two direction queries, the nested loop, the  *)
(* sort and the cut.                                                       *)

ForthQuery(query) == [query EXCEPT !.must = Append(@, Term("direction", "forth"))]

BackQuery(query) == [query EXCEPT !.must = Append(@, Term("direction", "back"))]

\* copy.copy in place of copy.deepcopy: the clones share the caller's must list,
\* so both appends land in the one list that all three predicates hold
RoundtripQueriesShallow(query) ==
    LET shared == BackQuery(ForthQuery(query))
    IN  [forth |-> shared, back |-> shared, base |-> shared]

\* the forth clone, the back clone and the caller's predicate once both
\* copy.deepcopy clones have had their direction term appended
RoundtripQueries(query) ==
    [forth |-> ForthQuery(query), back |-> BackQuery(query), base |-> query]

\* each leg converted to whole units before the sum
PairRowSumOfConverted(f, b) ==
    [origin |-> f.origin,
     destination |-> f.destination,
     forth_date |-> f.date,
     back_date |-> b.date,
     forth_price |-> Round2Div100(f.price),
     back_price |-> Round2Div100(b.price),
     total_price |-> Round2Div100(((f.price \div 100) + (b.price \div 100)) * 100)]

PairRow(f, b) ==
    [origin |-> f.origin,
     destination |-> f.destination,
     forth_date |-> f.date,
     back_date |-> b.date,
     forth_price |-> Round2Div100(f.price),
     back_price |-> Round2Div100(b.price),
     total_price |-> Round2Div100(f.price + b.price)]

\* the date strings compared as they are, without parsing them
PairCandidateUnparsed(f, b) ==
    IF f.origin = b.origin /\ f.destination = b.destination /\ b.date > f.date
    THEN <<PairRow(f, b)>>
    ELSE <<>>

\* the body of the inner loop: the rows appended for the candidate (f, b)
PairCandidate(f, b) ==
    IF f.origin = b.origin /\ f.destination = b.destination
    THEN LET f_date == Strptime(f.date)
             b_date == Strptime(b.date)
         IN  IF f_date = None \/ b_date = None THEN <<>>
             ELSE IF DateGreater(b_date[1], f_date[1]) THEN <<PairRow(f, b)>> ELSE <<>>
    ELSE <<>>

RECURSIVE InnerLoop(_, _, _)
InnerLoop(f, backs, j) ==
    IF j > Len(backs) THEN <<>>
    ELSE PairCandidate(f, backs[j]) \o InnerLoop(f, backs, j + 1)

RECURSIVE OuterLoop(_, _, _)
OuterLoop(forths, backs, i) ==
    IF i > Len(forths) THEN <<>>
    ELSE InnerLoop(forths[i], backs, 1) \o OuterLoop(forths, backs, i + 1)

\* list.sort(key=total_price): stable, ascending
RECURSIVE InsertByTotal(_, _)
InsertByTotal(row, sorted) ==
    IF sorted = <<>> THEN <<row>>
    ELSE IF FloatLess(row.total_price, Head(sorted).total_price)
         THEN <<row>> \o sorted
         ELSE <<Head(sorted)>> \o InsertByTotal(row, Tail(sorted))

RECURSIVE SortByTotal(_)
SortByTotal(rows) ==
    IF rows = <<>> THEN <<>>
    ELSE InsertByTotal(rows[Len(rows)], SortByTotal(SubSeq(rows, 1, Len(rows) - 1)))

\* the cut without the sort
CheapestPairsUnsorted(forths, backs) == Take(OuterLoop(forths, backs, 1), TopPairs)

CheapestPairs(forths, backs) == Take(SortByTotal(OuterLoop(forths, backs, 1)), TopPairs)

---------------------------------------------------------------------------
(* The requests and the indexes the model draws from.                      *)

AAA == <<"AAA">>
BBB == <<"BBB">>
CCC == <<"CCC">>
DDD == <<"DDD">>

Doc(origin, destination, date, date_retrieved, type, direction, price) ==
    [origin |-> origin, destination |-> destination, date |-> date,
     date_retrieved |-> date_retrieved, type |-> type, direction |-> direction,
     price |-> price]

Date(y, m, d) == [year |-> y, month |-> m, day |-> d]

Request(destination, origin_exclusions, origin_codes, flight_type, min_date_val, max_date_val, date_retrieved_val, concrete_date_val) ==
    [destination |-> destination, origin_exclusions |-> origin_exclusions,
     origin_codes |-> origin_codes, flight_type |-> flight_type,
     min_date_val |-> min_date_val, max_date_val |-> max_date_val,
     date_retrieved_val |-> date_retrieved_val, concrete_date_val |-> concrete_date_val]

\* destination strings: empty, blank, commas only, one code, several codes
DestinationInputs ==
    { <<>>, <<" ">>, <<",">>, <<",", " ", ",">>,
      <<"BBB">>, <<" ", "bbb", " ">>, <<"BBB", ",", "CCC">>,
      <<"bbb", ",", " ", "CCC", ",">>, <<"ddd">> }

QueryRequests ==
    { Request(d, ex, inc, t, mn, mx, dr, cd) :
        d \in DestinationInputs,
        ex \in {<<>>, <<AAA>>, <<AAA, CCC>>},
        inc \in {<<>>, <<AAA>>, <<CCC, AAA>>},
        t \in {"oneway", "roundtrip"},
        mn \in {None, Some(Date(2025, 3, 10))},
        mx \in {None, Some(Date(2025, 3, 17))},
        dr \in {None, Some(20250302)},
        cd \in {None, Some(20250309)} }

\* every document shape a predicate is judged on
DocUniverse ==
    { Doc(o, d, dt, dr, t, "forth", 10000) :
        o \in {AAA, CCC, DDD},
        d \in {BBB, CCC, DDD},
        dt \in {20250309, 20250310, 20250317, 20250318},
        dr \in {20250301, 20250302},
        t \in {"oneway", "roundtrip"} }

OnewayRequests ==
    { Request(<<"BBB">>, <<>>, <<>>, "oneway", None, None, dr, None) :
        dr \in {None, Some(20250302)} }

\* snapshots of one itinerary: the first of a month, the first of a year, the days
\* before and after, and a snapshot date that is no calendar date
OnewayDocs ==
    { Doc(AAA, d, 20250310, dr, "oneway", "absent", p) :
        d \in {BBB, CCC},
        dr \in {20250101, 20250301, 20250302, 20251301},
        p \in {14000, 15000} }

RoundtripRequests ==
    { Request(<<"bbb", ",", " ", "CCC", ",">>, <<>>, <<>>, "roundtrip", None, None, None, None) }

\* legs of the itinerary AAA-BBB on every date and price, 20250230 being no
\* calendar date, with one forth leg from another origin and one back leg to
\* another destination
RoundtripDocs ==
    { Doc(AAA, BBB, dt, 20250302, "roundtrip", "forth", p) :
        dt \in {20250230, 20250310, 20250317}, p \in {10000, 12000} }
    \cup
    { Doc(AAA, BBB, dt, 20250302, "roundtrip", "back", p) :
        dt \in {20250230, 20250317, 20250324}, p \in {9050, 12000} }
    \cup
    { Doc(CCC, BBB, 20250310, 20250302, "roundtrip", "forth", 10000),
      Doc(AAA, CCC, 20250317, 20250302, "roundtrip", "back", 12000) }

\* the indexes of at most n documents
RECURSIVE UpTo(_, _)
UpTo(docs, n) ==
    IF n = 0 THEN {{}}
    ELSE LET smaller == UpTo(docs, n - 1)
         IN  smaller \cup {ix \cup {d} : ix \in smaller, d \in docs}

InitRequest ==
    /\ pc = "start"
    /\ base_query = None
    /\ es_calls = 0
    /\ queries = <<>>
    /\ results = <<>>
    /\ lookups = <<>>
    /\ formatted_results = <<>>
    /\ set1 = <<>>
    /\ set2 = <<>>
    /\ pairs = <<>>
    /\ error = ""

\* any request, either entry point, an empty index
InitQuery ==
    /\ impl \in {"FlightSearch", "app"}
    /\ req \in QueryRequests
    /\ index = {}

InitOneway ==
    /\ impl = "FlightSearch"
    /\ req \in OnewayRequests
    /\ index \in UpTo(OnewayDocs, MaxOnewayDocs)

InitRoundtrip ==
    /\ impl = "FlightSearch"
    /\ req \in RoundtripRequests
    /\ index \in UpTo(RoundtripDocs, MaxRoundtripDocs)

Init == (InitQuery \/ InitOneway \/ InitRoundtrip) /\ InitRequest

---------------------------------------------------------------------------
(* The request, step by step.                                              *)

\* app.main with a blank destination: st.warning, st.stop
MainStops ==
    /\ pc = "start"
    /\ impl = "app"
    /\ Strip(req.destination) = <<>>
    /\ pc' = "stopped"
    /\ UNCHANGED <<impl, req, index, base_query, es_calls, queries, results, lookups,
                   formatted_results, set1, set2, pairs, error>>

\* app.main past the validation: build_base_query(destination.upper(), ...)
MainBuilds ==
    /\ pc = "start"
    /\ impl = "app"
    /\ Strip(req.destination) # <<>>
    /\ base_query' = Some(app_build_base_query([req EXCEPT !.destination = Upper(@)]))
    /\ pc' = "built"
    /\ UNCHANGED <<impl, req, index, es_calls, queries, results, lookups,
                   formatted_results, set1, set2, pairs, error>>

\* FlightSearch.build_base_query
BuildBaseQuery ==
    /\ pc = "start"
    /\ impl = "FlightSearch"
    /\ base_query' = Some(build_base_query(req))
    /\ pc' = "built"
    /\ UNCHANGED <<impl, req, index, es_calls, queries, results, lookups,
                   formatted_results, set1, set2, pairs, error>>

\* a search_elasticsearch call of either assembler raises: the request ends with it
SearchRaises ==
    /\ \/ pc = "built"
       \/ pc = "forth"
    /\ es_calls' = es_calls + 1
    /\ pc' = "error"
    /\ error' = "TransportError"
    /\ base_query' = IF pc = "built" /\ req.flight_type = "roundtrip"
                     THEN Some(RoundtripQueries(base_query[1]).base)
                     ELSE base_query
    /\ UNCHANGED <<impl, req, index, queries, results, lookups,
                   formatted_results, set1, set2, pairs>>

\* get_oneway_results: the primary search
OnewaySearch ==
    /\ pc = "built"
    /\ req.flight_type = "oneway"
    /\ \E hits \in search_elasticsearch(base_query[1], OnewaySize, index) :
          results' = hits
    /\ es_calls' = es_calls + 1
    /\ queries' = Append(queries, base_query[1])
    /\ pc' = "rows"
    /\ UNCHANGED <<impl, req, index, base_query, lookups, formatted_results,
                   set1, set2, pairs, error>>

NextDoc == results[Len(formatted_results) + 1]

\* one pass of the loop whose try block raises ValueError before the lookup
OnewayRowNoLookup ==
    /\ pc = "rows"
    /\ Len(formatted_results) < Len(results)
    /\ PrevDateRetrieved(NextDoc.date_retrieved) = None
    /\ lookups' = Append(lookups, [issued |-> FALSE, key |-> None, prev_price |-> None])
    /\ formatted_results' = Append(formatted_results, OnewayRow(NextDoc, None))
    /\ UNCHANGED <<impl, req, index, pc, base_query, es_calls, queries, results,
                   set1, set2, pairs, error>>

\* one pass of the loop whose lookup returns
OnewayRowLookup ==
    /\ pc = "rows"
    /\ Len(formatted_results) < Len(results)
    /\ PrevDateRetrieved(NextDoc.date_retrieved) # None
    /\ LET doc == NextDoc
           key == PrevDateRetrieved(doc.date_retrieved)
       IN  \E prev_price \in get_previous_day_price(doc.origin, doc.destination, doc.date,
                                                    doc.type, key[1], index) :
              /\ lookups' = Append(lookups, [issued |-> TRUE, key |-> key,
                                             prev_price |-> prev_price])
              /\ formatted_results' =
                    Append(formatted_results, OnewayRow(doc, PriceDiff(doc.price, prev_price)))
    /\ es_calls' = es_calls + 1
    /\ UNCHANGED <<impl, req, index, pc, base_query, queries, results,
                   set1, set2, pairs, error>>

\* one pass of the loop whose lookup raises: es.search errors are no ValueError,
\* so the except clause lets them through and get_oneway_results ends with it
OnewayRowLookupRaises ==
    /\ pc = "rows"
    /\ Len(formatted_results) < Len(results)
    /\ PrevDateRetrieved(NextDoc.date_retrieved) # None
    /\ lookups' = Append(lookups, [issued |-> TRUE,
                                   key |-> PrevDateRetrieved(NextDoc.date_retrieved),
                                   prev_price |-> None])
    /\ es_calls' = es_calls + 1
    /\ pc' = "error"
    /\ error' = "TransportError"
    /\ UNCHANGED <<impl, req, index, base_query, queries, results, formatted_results,
                   set1, set2, pairs>>

\* get_oneway_results returns formatted_results
OnewayReturn ==
    /\ pc = "rows"
    /\ Len(formatted_results) = Len(results)
    /\ pc' = "done"
    /\ UNCHANGED <<impl, req, index, base_query, es_calls, queries, results, lookups,
                   formatted_results, set1, set2, pairs, error>>

\* get_roundtrip_results: the two clones, then the forth search
ForthSearch ==
    /\ pc = "built"
    /\ req.flight_type = "roundtrip"
    /\ LET cloned == RoundtripQueries(base_query[1])
       IN  /\ \E hits \in search_elasticsearch(cloned.forth, RoundtripSize, index) :
                 set1' = hits
           /\ queries' = Append(queries, cloned.forth)
           /\ base_query' = Some(cloned.base)
    /\ es_calls' = es_calls + 1
    /\ pc' = "forth"
    /\ UNCHANGED <<impl, req, index, results, lookups, formatted_results,
                   set2, pairs, error>>

\* get_roundtrip_results: the back search, then the pairing, the sort and the cut.
\* The back clone was taken from the caller's predicate before the forth search,
\* and that predicate is as the two clones left it.
BackSearch ==
    /\ pc = "forth"
    /\ \E hits \in search_elasticsearch(BackQuery(base_query[1]), RoundtripSize, index) :
          /\ set2' = hits
          /\ pairs' = CheapestPairs(set1, hits)
    /\ es_calls' = es_calls + 1
    /\ queries' = Append(queries, BackQuery(base_query[1]))
    /\ pc' = "done"
    /\ UNCHANGED <<impl, req, index, base_query, results, lookups, formatted_results,
                   set1, error>>

\* the caller hands the same predicate object to get_roundtrip_results once more
RoundtripAgain ==
    /\ pc = "done"
    /\ req.flight_type = "roundtrip"
    /\ Len(queries) < 2 * MaxCalls
    /\ set1' = <<>>
    /\ set2' = <<>>
    /\ pairs' = <<>>
    /\ pc' = "built"
    /\ UNCHANGED <<impl, req, index, base_query, es_calls, queries, results, lookups,
                   formatted_results, error>>

Next ==
    \/ MainStops
    \/ MainBuilds
    \/ BuildBaseQuery
    \/ SearchRaises
    \/ OnewaySearch
    \/ OnewayRowNoLookup
    \/ OnewayRowLookup
    \/ OnewayRowLookupRaises
    \/ OnewayReturn
    \/ ForthSearch
    \/ BackSearch
    \/ RoundtripAgain

Spec == Init /\ [][Next]_vars

---------------------------------------------------------------------------
(* What the claims speak of.                                               *)

IsOneway == req.flight_type = "oneway"
IsRoundtrip == req.flight_type = "roundtrip"

IsCalendarDate(s) == ValidYMD(s \div 10000, (s \div 100) % 100, s % 100)

\* the calendar day before the calendar date s, as YYYYMMDD
CalendarDayBefore(s) ==
    LET y == s \div 10000
        m == (s \div 100) % 100
        d == s % 100
    IN  IF d > 1 THEN s - 1
        ELSE IF m > 1 THEN y * 10000 + (m - 1) * 100 + DaysInMonth(y, m - 1)
        ELSE (y - 1) * 10000 + 1231

\* the rows processed so far by the one-way loop, lookup attempted or not
Processed == 1..Len(lookups)

\* C1: in one-way mode every processed row whose date_retrieved is a calendar date
\* had its previous-day lookup issued with the key of the calendar day before
\* (20250301 gives 20250228, a first of January the 31 December before).
C1_PreviousDayKeyIsCalendarDayBefore ==
    \A k \in Processed :
        IsCalendarDate(results[k].date_retrieved) =>
            /\ lookups[k].issued
            /\ lookups[k].key = Some(CalendarDayBefore(results[k].date_retrieved))

\* C2: a request whose destination list is empty (empty, blank or commas only)
\* gets no predicate and makes no call to the search collaborator.
C2_MissingDestinationIsRejected ==
    Destinations(req.destination) = <<>> =>
        /\ base_query = None
        /\ es_calls = 0

\* a valid round-trip pair: same origin, same destination, both dates calendar
\* dates, the back date strictly later than the forth date
ValidPair(f, b) ==
    /\ f.origin = b.origin
    /\ f.destination = b.destination
    /\ IsCalendarDate(f.date)
    /\ IsCalendarDate(b.date)
    /\ b.date > f.date

\* the row a pair is shown as
ShownAs(row, f, b) ==
    /\ row.origin = f.origin
    /\ row.destination = f.destination
    /\ row.forth_date = f.date
    /\ row.back_date = b.date
    /\ Hundredths(row.forth_price) = f.price
    /\ Hundredths(row.back_price) = b.price

Returned(f, b) == \E x \in 1..Len(pairs) : ShownAs(pairs[x], f, b)

\* the rows are the TopPairs cheapest of the valid pairs of forths x backs
CheapestOf(forths, backs) ==
    LET valid == {v \in forths \X backs : ValidPair(v[1], v[2])}
    IN  /\ Len(pairs) = Min(TopPairs, Cardinality(valid))
        /\ \A v \in valid :
              ~Returned(v[1], v[2]) =>
                  \A x \in 1..Len(pairs) :
                      Hundredths(pairs[x].total_price) <= v[1].price + v[2].price

MatchingForth == Matching(ForthQuery(base_query[1]), index)
MatchingBack == Matching(BackQuery(base_query[1]), index)

\* C3 as claimed: the returned rows are the cheapest valid pairs formable from ALL
\* matching forth and back records of the dataset, whatever the retrieval limit.
C3_CheapestOfAllMatching ==
    (IsRoundtrip /\ pc = "done") => CheapestOf(MatchingForth, MatchingBack)

\* C3 amended: the returned rows are the cheapest valid pairs formable from the
\* retrieved forth and back records, min(TopPairs, n) of them, and no valid pair of
\* retrieved records left out is cheaper than a returned one.
C3_CheapestOfRetrieved ==
    (IsRoundtrip /\ pc = "done") => CheapestOf(Range(set1), Range(set2))

\* more forth records match than are retrieved, and more valid pairs exist among
\* the retrieved records than are returned
C3_Witness ==
    /\ IsRoundtrip /\ pc = "done"
    /\ Cardinality(MatchingForth) > RoundtripSize
    /\ Cardinality({v \in Range(set1) \X Range(set2) : ValidPair(v[1], v[2])}) > TopPairs
    /\ Len(pairs) = TopPairs

Built == 1..Len(formatted_results)

\* C5: in one-way mode a row whose previous-day lookup returned a price p shows
\* (price - p) / 100 as its change (15000 against 14000 gives 10.00, an unchanged
\* price gives 0.00 and not "N/A"); a row whose lookup returned no record shows "N/A".
C5_PriceChangeAgainstPreviousDay ==
    \A k \in Built :
        LET change == formatted_results[k].price_change_vs_previous_day
            found  == lookups[k].prev_price
        IN  /\ (lookups[k].issued /\ found # None) =>
                  /\ change.kind = "float"
                  /\ Hundredths(change.value) = results[k].price - found[1]
                  /\ (results[k].price = 15000 /\ found[1] = 14000) =>
                        change.value = [sign |-> 1, whole |-> 10, frac |-> 0]
            /\ (lookups[k].issued /\ found = None) => change = NA

\* one returned row shows a change of 10.00 and another a change of 0.00
C5_Witness ==
    /\ IsOneway /\ pc = "done"
    /\ \E k \in Built :
          /\ lookups[k].prev_price = Some(14000)
          /\ formatted_results[k].price_change_vs_previous_day
                = [kind |-> "float", value |-> [sign |-> 1, whole |-> 10, frac |-> 0]]
    /\ \E k \in Built :
          /\ lookups[k].prev_price = Some(results[k].price)
          /\ formatted_results[k].price_change_vs_previous_day
                = [kind |-> "float", value |-> [sign |-> 1, whole |-> 0, frac |-> 0]]

\* the previous-day lookup of the row in hand was attempted and gave no row
LookupFailed == Len(lookups) > Len(formatted_results)

\* C6: a previous-day lookup that fails is not escalated: get_oneway_results does
\* not end with an error, and the rows retrieved are all processed and returned.
C6_LookupFailureIsNotEscalated ==
    LookupFailed => (pc # "error" /\ error = "")

DestinationList ==
    IF impl = "FlightSearch" THEN Destinations(req.destination)
    ELSE <<Upper(req.destination)>>

YYYYMMDD(d) == d.year * 10000 + d.month * 100 + d.day

\* what the inputs of the request ask of a record
Wanted(doc) ==
    /\ doc.destination \in Range(DestinationList)
    /\ doc.origin \notin Range(req.origin_exclusions)
    /\ (req.origin_codes # <<>> => doc.origin \in Range(req.origin_codes))
    /\ doc.type = req.flight_type
    /\ (req.date_retrieved_val # None => doc.date_retrieved = req.date_retrieved_val[1])
    /\ IF req.concrete_date_val # None
       THEN doc.date = req.concrete_date_val[1]
       ELSE /\ (req.min_date_val # None => doc.date >= YYYYMMDD(req.min_date_val[1]))
            /\ (req.max_date_val # None => doc.date <= YYYYMMDD(req.max_date_val[1]))

\* C8: for a non-empty destination list, a record satisfies the built predicate
\* exactly when its destination is in the list, its origin is not excluded and is
\* among the inclusions if any, its type is the flight type, its date_retrieved is
\* the given one if any, and its date is the concrete date if given (min and max
\* then ignored), else within the inclusive bounds given.
C8_PredicateMeansTheInputs ==
    (pc = "built" /\ Destinations(req.destination) # <<>>) =>
        \A doc \in DocUniverse : Matches(base_query[1], doc) <=> Wanted(doc)

\* a predicate built for several destinations, overlapping origin lists, a
\* concrete date outside the min/max bounds, that some record satisfies
C8_Witness ==
    /\ pc = "built"
    /\ impl = "FlightSearch"
    /\ Len(Destinations(req.destination)) > 1
    /\ Range(req.origin_exclusions) \cap Range(req.origin_codes) # {}
    /\ req.concrete_date_val # None
    /\ req.min_date_val # None
    /\ req.concrete_date_val[1] < YYYYMMDD(req.min_date_val[1])
    /\ \E doc \in DocUniverse : Matches(base_query[1], doc)

FixtureForth == Doc(AAA, BBB, 20250310, 20250302, "roundtrip", "forth", 10000)
FixtureBack == Doc(AAA, BBB, 20250317, 20250302, "roundtrip", "back", 12000)

\* C9: every returned pair row carries the two legs' prices divided by 100 and, as
\* total_price, the sum of the two prices in minor units divided by 100; the index
\* of one forth record (AAA, BBB, 20250310, 10000) and one back record
\* (AAA, BBB, 20250317, 12000) gives exactly one pair, of total_price 220.00.
C9_TotalIsSumOfMinorUnits ==
    (IsRoundtrip /\ pc = "done") =>
        /\ \A x \in 1..Len(pairs) :
              \E f \in Range(set1), b \in Range(set2) :
                  /\ ShownAs(pairs[x], f, b)
                  /\ Hundredths(pairs[x].total_price) = f.price + b.price
                  /\ pairs[x].total_price.frac = (f.price + b.price) % 100
                  /\ pairs[x].total_price.whole = (f.price + b.price) \div 100
        /\ index = {FixtureForth, FixtureBack} =>
              /\ Len(pairs) = 1
              /\ pairs[1].total_price = [sign |-> 1, whole |-> 220, frac |-> 0]

\* the fixture has been paired
C9_Witness ==
    /\ IsRoundtrip /\ pc = "done"
    /\ index = {FixtureForth, FixtureBack}
    /\ Len(pairs) = 1

Parseable(hits) == SelectSeq(hits, LAMBDA d : IsCalendarDate(d.date))

\* C10: a retrieved record whose date is no calendar date does not stop
\* get_roundtrip_results, appears in no returned pair, and the pairs returned are
\* those returned were the record absent from the retrieved sets.
C10_UnparseableDateIsSkipped ==
    (IsRoundtrip /\ pc = "done") =>
        /\ error = ""
        /\ \A x \in 1..Len(pairs) :
              IsCalendarDate(pairs[x].forth_date) /\ IsCalendarDate(pairs[x].back_date)
        /\ pairs = CheapestPairs(Parseable(set1), Parseable(set2))

\* a pair is returned although a record of no calendar date was retrieved for the
\* same itinerary, dated before a back leg
C10_Witness ==
    /\ IsRoundtrip /\ pc = "done"
    /\ pairs # <<>>
    /\ \E f \in Range(set1), b \in Range(set2) :
          /\ f.origin = b.origin /\ f.destination = b.destination
          /\ ~IsCalendarDate(f.date) /\ IsCalendarDate(b.date)
          /\ f.date < b.date

\* the predicate as the query builder returned it for the request
PredicateAsBuilt ==
    IF impl = "FlightSearch" THEN build_base_query(req)
    ELSE app_build_base_query([req EXCEPT !.destination = Upper(@)])

DirectionClauses(query) == SelectSeq(query.must, LAMBDA c : c.field = "direction")

\* the direction searched by the k-th query of a request: forth, back, forth, ...
DirectionOf(k) == IF k % 2 = 1 THEN "forth" ELSE "back"

\* C11: get_roundtrip_results searches with two clones of the base predicate, the
\* forth query being the base predicate plus exactly one condition direction =
\* forth and the back query the base predicate plus exactly one condition
\* direction = back; the caller's predicate is as it was built after the call, and
\* a further call with the same predicate object issues the same two queries.
C11_ClonesLeaveBasePredicate ==
    (IsRoundtrip /\ base_query # None) =>
        /\ base_query[1] = PredicateAsBuilt
        /\ DirectionClauses(base_query[1]) = <<>>
        /\ \A k \in 1..Len(queries) :
              /\ DirectionClauses(queries[k]) = <<Term("direction", DirectionOf(k))>>
              /\ queries[k].must = Append(PredicateAsBuilt.must, Term("direction", DirectionOf(k)))
              /\ queries[k].must_not = PredicateAsBuilt.must_not
              /\ k > 2 => queries[k] = queries[k - 2]

\* a second call with the same predicate has issued its two queries, for a
\* predicate that also carries exclusions
C11_Witness ==
    /\ IsRoundtrip /\ pc = "done"
    /\ Len(queries) >= 4
    /\ base_query[1].must_not # <<>>

====
